---- MODULE Spec2Model ----
(***************************************************************************)
(* Model of AmineBaraich/cv-job-matcher.                                   *)
(*                                                                         *)
(* The repository holds two independent programs:                          *)
(*   src/utils.py  extract_text_from_pdf, analyze_cv_with_gemini,          *)
(*                 mock_cv_analysis, search_real_jobs (GitHub Jobs and     *)
(*                 RemoteOK), get_mock_jobs, format_comprehensive_results  *)
(*   src/app.py    CVAnalyzer (Groq), JobSearcher (Serper, DuckDuckGo),    *)
(*                 CVJobMatcher.generate_search_queries and                *)
(*                 CVJobMatcher.process_cv_and_search                      *)
(*                                                                         *)
(* Each function is modelled as a small state machine whose steps are the  *)
(* statements of the function, with the replies of the external services   *)
(* (PDF decoder, language model, job providers) drawn from bounded sets.   *)
(*                                                                         *)
(* Text the code inspects with `in`, lower(), split() or slicing is a      *)
(* sequence of one-character strings; text it only passes along is an      *)
(* opaque string.                                                          *)
(***************************************************************************)
EXTENDS Integers, Sequences, FiniteSets, TLC

VARIABLES
    \* ---- utils.search_real_jobs ----
    s_pc,          \* position in search_real_jobs
    query,         \* argument query
    country,       \* argument country
    github_jobs,   \* local github_jobs (what search_github_jobs returned)
    remote_jobs,   \* local remote_jobs (what search_remoteok_jobs returned)
    gh_call,       \* outcome of the GitHub Jobs call: "pending", "ok", "failed"
    ro_call,       \* outcome of the RemoteOK call: "pending", "ok", "failed"
    jobs,          \* local jobs
    s_result,      \* value returned by search_real_jobs (once s_pc = "done")
    \* ---- app.CVJobMatcher.generate_search_queries ----
    g_pc,          \* position in generate_search_queries
    cv_analysis,   \* argument cv_analysis (the profile dict)
    g_result,      \* value returned by generate_search_queries (once g_pc = "done")
    \* ---- utils.mock_cv_analysis ----
    m_pc,          \* position in mock_cv_analysis
    cv_text,       \* argument cv_text, as the list of its words
    m_raised,      \* TRUE when mock_cv_analysis ended by raising
    m_result,      \* value returned by mock_cv_analysis (once m_pc = "done")
    \* ---- utils.analyze_cv_with_gemini ----
    a_pc,          \* position in analyze_cv_with_gemini
    api_key,       \* os.getenv('GEMINI_API_KEY')
    content,       \* response.text, as the list of its tokens
    a_path,        \* the branch analyze_cv_with_gemini took
    a_raised,      \* TRUE when analyze_cv_with_gemini ended by raising
    a_result,      \* value returned by analyze_cv_with_gemini (once a_pc = "done")
    \* ---- app.CVJobMatcher.process_cv_and_search ----
    p_pc,            \* position in process_cv_and_search
    pdf_file,        \* argument pdf_file
    p_country,       \* argument country
    groq_key,        \* argument groq_key
    serper_key,      \* argument serper_key
    cv_analyzer,     \* self.cv_analyzer: the api_key of the CVAnalyzer, or NoObject
    job_searcher,    \* self.job_searcher: the api_key of the JobSearcher, or NoObject
    extraction,      \* outcome of extract_text_from_pdf: "pending", "ok", "failed"
    open_documents,  \* PDF documents opened by fitz.open and not closed
    p_cv_text,       \* local cv_text
    analyzer_log,    \* the requests sent to the Groq endpoint, each with its key and reply
    analysis_result, \* local analysis_result
    analysis_output, \* local analysis_output
    search_queries,  \* local search_queries
    query_index,     \* the iteration of `for query in search_queries`
    search_log,      \* the search_jobs calls made, each with its provider outcomes
    all_jobs,        \* local all_jobs
    out1,            \* first element of the returned pair (once p_pc = "done")
    out2,            \* second element of the returned pair (once p_pc = "done")
    \* ---- concurrent invocations of process_cv_and_search on one matcher ----
    c_pc,          \* position of each invocation
    c_args,        \* arguments groq_key and serper_key of each invocation
    c_local,       \* locals cv_text, analysis_result, search_queries of each invocation
    c_requests,    \* the requests each invocation sent, each with the key it carried
    c_out,         \* the pair each invocation returned (once its c_pc = "done")
    \* ---- utils.format_comprehensive_results ----
    f_pc,          \* position in format_comprehensive_results
    f_analysis,    \* argument analysis_result
    f_jobs,        \* argument jobs
    f_country,     \* argument country
    f_result       \* value returned by format_comprehensive_results (once f_pc = "done")

searchVars == <<s_pc, query, country, github_jobs, remote_jobs, gh_call, ro_call,
                jobs, s_result>>

queryVars == <<g_pc, cv_analysis, g_result>>

mockVars == <<m_pc, cv_text, m_raised, m_result>>

geminiVars == <<a_pc, api_key, content, a_path, a_raised, a_result>>

appVars == <<p_pc, pdf_file, p_country, groq_key, serper_key, cv_analyzer, job_searcher,
             extraction, open_documents, p_cv_text, analyzer_log, analysis_result,
             analysis_output, search_queries, query_index, search_log, all_jobs,
             out1, out2>>

\* the variables of one call of process_cv_and_search: appVars without the
\* fields of the matcher
appCallVars == <<p_pc, pdf_file, p_country, groq_key, serper_key,
                 extraction, open_documents, p_cv_text, analyzer_log, analysis_result,
                 analysis_output, search_queries, query_index, search_log, all_jobs,
                 out1, out2>>

concurrentVars == <<c_pc, c_args, c_local, c_requests, c_out>>

formatVars == <<f_pc, f_analysis, f_jobs, f_country, f_result>>

vars == <<searchVars, queryVars, mockVars, geminiVars, appVars, concurrentVars, formatVars>>

----------------------------------------------------------------------------
(* Bounds of the model *)

\* longest list the GitHub Jobs API returns in a run
MaxGithub == 2
\* longest list of postings the RemoteOK API returns after its leading notice
MaxRemote == 1
\* longest job_titles, skills and industries lists of a profile
MaxTitles == 4
MaxSkills == 4
MaxIndustries == 3
\* longest resume text, in words
MaxWords == 2
\* longest reply of the language model, in tokens
MaxReply == 3
\* longest result list a search provider returns for one query
MaxResults == 2

----------------------------------------------------------------------------
(* Python strings, lists and dicts *)

Min(a, b) == IF a <= b THEN a ELSE b

\* s[:n]
Take(s, n) == SubSeq(s, 1, Min(n, Len(s)))

\* s[n:]
Drop(s, n) == IF n >= Len(s) THEN <<>> ELSE SubSeq(s, n + 1, Len(s))

SeqsUpTo(S, n) == UNION {[1..k -> S] : k \in 0..n}

UpperLetters ==
    <<"A", "B", "C", "D", "E", "F", "G", "H", "I", "J", "K", "L", "M",
      "N", "O", "P", "Q", "R", "S", "T", "U", "V", "W", "X", "Y", "Z">>

LowerLetters ==
    <<"a", "b", "c", "d", "e", "f", "g", "h", "i", "j", "k", "l", "m",
      "n", "o", "p", "q", "r", "s", "t", "u", "v", "w", "x", "y", "z">>

LowerChar(c) ==
    IF \E i \in 1..26 : UpperLetters[i] = c
    THEN LowerLetters[CHOOSE i \in 1..26 : UpperLetters[i] = c]
    ELSE c

\* str.lower()
Lower(s) == [i \in 1..Len(s) |-> LowerChar(s[i])]

\* sub in s
Contains(sub, s) ==
    \E i \in 0..(Len(s) - Len(sub)) :
        \A j \in 1..Len(sub) : s[i + j] = sub[j]

\* str.split(): the maximal runs of non-blank characters, in order
RECURSIVE SplitFrom(_, _, _)
SplitFrom(s, i, word) ==
    IF i > Len(s)
    THEN IF word = <<>> THEN <<>> ELSE <<word>>
    ELSE IF s[i] = " "
         THEN (IF word = <<>> THEN <<>> ELSE <<word>>) \o SplitFrom(s, i + 1, <<>>)
         ELSE SplitFrom(s, i + 1, Append(word, s[i]))

Split(s) == SplitFrom(s, 1, <<>>)

\* a key the reply does not carry: of an opaque string, of a character string
Absent == "<absent>"
AbsentStr == <<"<absent>">>

\* dict.get(key, default) on a value that may be absent
Get(v, default) == IF v = Absent THEN default ELSE v
GetStr(v, default) == IF v = AbsentStr THEN default ELSE v

\* a list-valued key the dict does not carry
AbsentList == <<AbsentStr>>
GetList(v, default) == IF v = AbsentList THEN default ELSE v

\* sep.join(list)
RECURSIVE Join(_, _)
Join(sep, list) ==
    IF list = <<>> THEN <<>>
    ELSE IF Len(list) = 1 THEN list[1]
    ELSE list[1] \o sep \o Join(sep, Tail(list))

\* bool(x) of a string or list
Truthy(s) == s /= <<>>

----------------------------------------------------------------------------
(* String literals of the code *)

StrRemoteLower == <<"r", "e", "m", "o", "t", "e">>
StrRemote      == <<"R", "e", "m", "o", "t", "e">>
StrNA          == <<"N", "/", "A">>
StrEmpty       == <<>>

----------------------------------------------------------------------------
(* Inputs of utils.search_real_jobs *)

StrFrance == <<"F", "r", "a", "n", "c", "e">>
StrCanada == <<"C", "a", "n", "a", "d", "a">>

\* country strings the caller passes (the empty string is the default)
Countries == {StrEmpty, StrFrance, StrCanada}

\* query strings: "go" has no term longer than 2 characters
Queries == {<<"p", "y", "t", "h", "o", "n", " ", "d", "e", "v">>, <<"g", "o">>}

\* locations a GitHub Jobs posting carries (an absent one is read as 'N/A')
GithubLocations ==
    {<<"P", "a", "r", "i", "s", ",", " ", "F", "R", "A", "N", "C", "E">>,
     <<"R", "E", "M", "O", "T", "E">>}

GithubUrls == {"https://jobs.github.com/positions/a", "https://jobs.github.com/positions/b"}

\* one element of the GitHub Jobs reply; location and url may be absent
GithubRaw ==
    [location : GithubLocations \cup {AbsentStr}, url : GithubUrls \cup {Absent}]

\* positions a RemoteOK posting carries
RemotePositions ==
    {<<"P", "y", "t", "h", "o", "n", " ", "D", "e", "v", "e", "l", "o", "p", "e", "r">>,
     <<"C", "h", "e", "f">>}

RemoteIds == {"1", "2"}

\* one element of the RemoteOK reply; the reply carries no description here
RemoteRaw == [position : RemotePositions, id : RemoteIds \cup {Absent}]

\* the first element of the RemoteOK reply (a notice, not a posting)
RemoteNotice == [position |-> <<>>, id |-> Absent]

----------------------------------------------------------------------------
(* utils.search_github_jobs *)

GithubPosting(job) ==
    [title    |-> "github title",
     location |-> GetStr(job.location, StrNA),
     url      |-> Get(job.url, "#"),
     job_type |-> "N/A"]

\* data[:5], each element normalised; [] when the call or the decoding fails
search_github_jobs(failed, data) ==
    IF failed
    THEN <<>>
    ELSE [i \in 1..Len(Take(data, 5)) |-> GithubPosting(data[i])]

----------------------------------------------------------------------------
(* utils.search_remoteok_jobs *)

\* [term.lower() for term in query.split() if len(term) > 2]
SearchTerms(q) ==
    LET terms == Split(q)
    IN  [i \in 1..Len(SelectSeq(terms, LAMBDA t : Len(t) > 2)) |->
            Lower(SelectSeq(terms, LAMBDA t : Len(t) > 2)[i])]

\* sum(1 for term in search_terms if term in job_title or term in job_description)
MatchScore(q, job) ==
    LET terms == SearchTerms(q)
    IN  Cardinality({i \in 1..Len(terms) :
            \/ Contains(terms[i], Lower(job.position))
            \/ Contains(terms[i], Lower(StrEmpty))})

RemoteUrl(id) == IF id = Absent THEN "#" ELSE IF id = "1" THEN "https://remoteok.com/l/1"
                                              ELSE "https://remoteok.com/l/2"

RemotePosting(job) ==
    [title    |-> "remoteok title",
     location |-> StrRemote,
     url      |-> RemoteUrl(job.id),
     job_type |-> "Remote"]

\* data[1:6], the matching elements normalised; [] when the call fails
search_remoteok_jobs(failed, q, data) ==
    IF failed
    THEN <<>>
    ELSE LET window  == Take(Drop(data, 1), 5)
             matched == SelectSeq(window, LAMBDA job : MatchScore(q, job) > 0)
         IN  [i \in 1..Len(matched) |-> RemotePosting(matched[i])]

----------------------------------------------------------------------------
(* utils.get_mock_jobs *)

MockTitles ==
    <<"Senior Software Engineer", "Data Scientist", "Product Manager",
      "DevOps Engineer", "UX/UI Designer">>

MockUrls ==
    <<"https://linkedin.com/jobs/view/senior-software-engineer-at-tech-innovations",
      "https://indeed.com/viewjob?jk=data-scientist-position",
      "https://glassdoor.com/job/product-manager-position",
      "https://stackoverflow.com/jobs/12345/devops-engineer",
      "https://dribbble.com/jobs/ux-designer-position">>

\* get_mock_jobs that tags every placeholder "Remote", whatever the country
get_mock_jobs_AlwaysRemote(q, c) ==
    [i \in 1..5 |->
        [title    |-> MockTitles[i],
         location |-> StrRemote,
         url      |-> MockUrls[i],
         job_type |-> "Full-time"]]

get_mock_jobs(q, c) ==
    LET base_location == IF Truthy(c) THEN c ELSE StrRemote
    IN  [i \in 1..5 |->
            [title    |-> MockTitles[i],
             location |-> base_location,
             url      |-> MockUrls[i],
             job_type |-> "Full-time"]]

----------------------------------------------------------------------------
(* utils.search_real_jobs *)

\* country.lower() in location.lower() or 'remote' in location.lower()
LocationMatches(c, job) ==
    \/ Contains(Lower(c), Lower(job.location))
    \/ Contains(StrRemoteLower, Lower(job.location))

\* the location filter without its `if filtered_jobs:` guard
FilterByLocation_NoGuard(c, js) ==
    IF Truthy(c) /\ Truthy(js)
    THEN SelectSeq(js, LAMBDA job : LocationMatches(c, job))
    ELSE js

\* the location filter: kept only when it leaves at least one posting
FilterByLocation(c, js) ==
    IF Truthy(c) /\ Truthy(js)
    THEN LET filtered_jobs == SelectSeq(js, LAMBDA job : LocationMatches(c, job))
         IN  IF Truthy(filtered_jobs) THEN filtered_jobs ELSE js
    ELSE js

\* return jobs[:10] if jobs else get_mock_jobs(query, country)
SearchReturn(q, c, js) == IF Truthy(js) THEN Take(js, 10) ELSE get_mock_jobs(q, c)

\* the variables of search_real_jobs while another function runs
SearchIdle ==
    /\ s_pc = "idle"
    /\ query = StrEmpty
    /\ country = StrEmpty
    /\ github_jobs = <<>>
    /\ remote_jobs = <<>>
    /\ gh_call = "pending"
    /\ ro_call = "pending"
    /\ jobs = <<>>
    /\ s_result = <<>>

\* the variables of generate_search_queries while another function runs
QueryIdle ==
    /\ g_pc = "idle"
    /\ cv_analysis = [job_titles |-> AbsentList, skills |-> AbsentList,
                      industries |-> AbsentList, experience_level |-> AbsentStr]
    /\ g_result = <<>>

\* the variables of mock_cv_analysis while another function runs
MockIdle ==
    /\ m_pc = "idle"
    /\ cv_text = <<>>
    /\ m_raised = FALSE
    /\ m_result = <<>>

\* the variables of analyze_cv_with_gemini while another function runs
GeminiIdle ==
    /\ a_pc = "idle"
    /\ api_key = Absent
    /\ content = <<>>
    /\ a_path = "none"
    /\ a_raised = FALSE
    /\ a_result = <<>>

\* no object: self.cv_analyzer = None, pdf_file = None
NoObject == "<None>"

\* an f-string or text not built yet
NoText == <<>>

\* the profile dict with every key missing
EmptyDict ==
    [json_type |-> "object", error |-> AbsentStr,
     job_titles |-> AbsentList, skills |-> AbsentList,
     industries |-> AbsentList, experience_level |-> AbsentStr]

\* the invocations of process_cv_and_search that may overlap on one matcher
Invocations == {1, 2}

\* the variables of the overlapping invocations while another function runs
ConcurrentIdle ==
    /\ c_pc = [i \in Invocations |-> "idle"]
    /\ c_args = [i \in Invocations |-> [groq_key |-> "", serper_key |-> ""]]
    /\ c_local = [i \in Invocations |->
                    [cv_text |-> NoText, analysis_result |-> EmptyDict,
                     analysis_output |-> NoText, search_queries |-> <<>>,
                     query_index |-> 0, all_jobs |-> <<>>]]
    /\ c_requests = [i \in Invocations |-> <<>>]
    /\ c_out = [i \in Invocations |-> <<NoText, NoText>>]

\* the variables of format_comprehensive_results while another function runs
FormatIdle ==
    /\ f_pc = "idle"
    /\ f_analysis = [job_recommendations |-> <<>>, cv_improvement_suggestions |-> <<>>]
    /\ f_jobs = <<>>
    /\ f_country = ""
    /\ f_result = <<>>

\* the variables of process_cv_and_search while another function runs
AppIdle ==
    /\ p_pc = "idle"
    /\ pdf_file = NoObject
    /\ p_country = StrEmpty
    /\ groq_key = ""
    /\ serper_key = ""
    /\ cv_analyzer = NoObject
    /\ job_searcher = NoObject
    /\ extraction = "pending"
    /\ open_documents = 0
    /\ p_cv_text = NoText
    /\ analyzer_log = <<>>
    /\ analysis_result = EmptyDict
    /\ analysis_output = NoText
    /\ search_queries = <<>>
    /\ query_index = 0
    /\ search_log = <<>>
    /\ all_jobs = <<>>
    /\ out1 = NoText
    /\ out2 = NoText

SearchInit ==
    /\ ConcurrentIdle
    /\ FormatIdle
    /\ QueryIdle
    /\ MockIdle
    /\ GeminiIdle
    /\ AppIdle
    /\ s_pc = "github"
    /\ query \in Queries
    /\ country \in Countries
    /\ github_jobs = <<>>
    /\ remote_jobs = <<>>
    /\ gh_call = "pending"
    /\ ro_call = "pending"
    /\ jobs = <<>>
    /\ s_result = <<>>

\* try: github_jobs = search_github_jobs(query); jobs.extend(github_jobs)
SearchGithub ==
    /\ s_pc = "github"
    /\ \/ /\ gh_call' = "failed"
          /\ github_jobs' = search_github_jobs(TRUE, <<>>)
       \/ \E data \in SeqsUpTo(GithubRaw, MaxGithub) :
             /\ gh_call' = "ok"
             /\ github_jobs' = search_github_jobs(FALSE, data)
    /\ jobs' = jobs \o github_jobs'
    /\ s_pc' = "remoteok"
    /\ UNCHANGED <<query, country, remote_jobs, ro_call, s_result>>
    /\ UNCHANGED <<queryVars, mockVars, geminiVars, appVars, concurrentVars, formatVars>>

\* try: remote_jobs = search_remoteok_jobs(query); jobs.extend(remote_jobs)
SearchRemoteok ==
    /\ s_pc = "remoteok"
    /\ \/ /\ ro_call' = "failed"
          /\ remote_jobs' = search_remoteok_jobs(TRUE, query, <<>>)
       \/ \E data \in SeqsUpTo(RemoteRaw, MaxRemote) :
             /\ ro_call' = "ok"
             /\ remote_jobs' = search_remoteok_jobs(FALSE, query, <<RemoteNotice>> \o data)
    /\ jobs' = jobs \o remote_jobs'
    /\ s_pc' = "filter"
    /\ UNCHANGED <<query, country, github_jobs, gh_call, s_result>>
    /\ UNCHANGED <<queryVars, mockVars, geminiVars, appVars, concurrentVars, formatVars>>

\* if country and jobs: ... ; return ...
SearchFilterAndReturn ==
    /\ s_pc = "filter"
    /\ jobs' = FilterByLocation(country, jobs)
    /\ s_result' = SearchReturn(query, country, jobs')
    /\ s_pc' = "done"
    /\ UNCHANGED <<query, country, github_jobs, remote_jobs, gh_call, ro_call>>
    /\ UNCHANGED <<queryVars, mockVars, geminiVars, appVars, concurrentVars, formatVars>>

SearchNext == SearchGithub \/ SearchRemoteok \/ SearchFilterAndReturn

SpecSearch == SearchInit /\ [][SearchNext]_vars

----------------------------------------------------------------------------
(* Properties of utils.search_real_jobs *)

\* what the two providers returned, in the order search_real_jobs collects it
Provided == github_jobs \o remote_jobs

\* C1: the postings search_real_jobs returns carry each url at most once.
C1_SearchUrlsUnique ==
    s_pc = "done" =>
        \A i, j \in 1..Len(s_result) : i /= j => s_result[i].url /= s_result[j].url

\* C2: with a non-empty country and at least one provider posting, when no
\* posting's location mentions the country or "remote" the result is the
\* unfiltered provider postings (first 10); when some posting matches, every
\* returned posting matches.
C2_LocationFilterFallsBack ==
    (s_pc = "done" /\ Truthy(country) /\ Truthy(Provided)) =>
        IF \A i \in 1..Len(Provided) : ~LocationMatches(country, Provided[i])
        THEN /\ s_result = Take(Provided, 10)
             /\ s_result /= <<>>
             /\ s_result /= get_mock_jobs(query, country)
        ELSE \A i \in 1..Len(s_result) : LocationMatches(country, s_result[i])

\* C2 witness: a country is given, providers returned postings, none matches,
\* and the unfiltered postings were returned.
C2_Witness ==
    /\ s_pc = "done"
    /\ Truthy(country)
    /\ Len(Provided) >= 2
    /\ \A i \in 1..Len(Provided) : ~LocationMatches(country, Provided[i])
    /\ s_result = Provided

\* C3: when both providers fail or return nothing, the result is the five
\* fixed placeholder postings, each located at the requested country, or at
\* "Remote" when the country is empty.
C3_PlaceholdersCarryCountry ==
    (s_pc = "done" /\ github_jobs = <<>> /\ remote_jobs = <<>>) =>
        /\ Len(s_result) = 5
        /\ \A i \in 1..Len(s_result) :
              /\ s_result[i].title = MockTitles[i]
              /\ s_result[i].url = MockUrls[i]
              /\ s_result[i].location = (IF country = StrEmpty THEN StrRemote ELSE country)

\* C3 witness: both provider calls failed for a request with country "Canada"
\* and the placeholders were returned.
C3_Witness ==
    /\ s_pc = "done"
    /\ gh_call = "failed"
    /\ ro_call = "failed"
    /\ country = StrCanada
    /\ Len(s_result) = 5

----------------------------------------------------------------------------
(* app.CVJobMatcher.generate_search_queries *)

StrQuote == <<"\"">>
StrSpace == <<" ">>
StrJobs  == <<" ", "j", "o", "b", "s">>
StrMid   == <<"m", "i", "d">>

\* job titles, skills and industries a profile may name
TitleNames    == {<<"D", "e", "v">>, <<"Q", "A">>}
SkillPool     == <<<<"p", "y">>, <<"g", "o">>, <<"s", "q", "l">>, <<"j", "s">>,
                   <<"c">>, <<"r", "u", "s", "t">>>>
IndustryNames == {<<"I", "T">>, <<"B", "a", "n", "k">>}
LevelNames    == {<<"s", "e", "n", "i", "o", "r">>}

\* the profile dicts handed to generate_search_queries; every key may be missing
Profiles ==
    [job_titles       : SeqsUpTo(TitleNames, MaxTitles) \cup {AbsentList},
     skills           : {Take(SkillPool, n) : n \in 0..MaxSkills} \cup {AbsentList},
     industries       : SeqsUpTo(IndustryNames, MaxIndustries) \cup {AbsentList},
     experience_level : LevelNames \cup {AbsentStr}]

\* for title in cv_analysis.get('job_titles', [])[:3]: queries.append(f'"{title}"')
TitleQueries(p) ==
    LET titles == Take(GetList(p.job_titles, <<>>), 3)
    IN  [i \in 1..Len(titles) |-> StrQuote \o titles[i] \o StrQuote]

\* if skills: queries.append(f"{exp_level} {' '.join(skills[:3])}")
SkillQueries(p) ==
    LET skills    == Take(GetList(p.skills, <<>>), 5)
        exp_level == GetStr(p.experience_level, StrMid)
    IN  IF Truthy(skills)
        THEN <<exp_level \o StrSpace \o Join(StrSpace, Take(skills, 3))>>
        ELSE <<>>

\* for industry in cv_analysis.get('industries', [])[:2]: queries.append(f"{industry} jobs")
IndustryQueries(p) ==
    LET industries == Take(GetList(p.industries, <<>>), 2)
    IN  [i \in 1..Len(industries) |-> industries[i] \o StrJobs]

\* generate_search_queries with the skill query appended first
generate_search_queries_SkillFirst(p) ==
    Take(SkillQueries(p) \o TitleQueries(p) \o IndustryQueries(p), 5)

\* return queries[:5]
generate_search_queries(p) ==
    Take(TitleQueries(p) \o SkillQueries(p) \o IndustryQueries(p), 5)

QueryInit ==
    /\ ConcurrentIdle
    /\ FormatIdle
    /\ SearchIdle
    /\ MockIdle
    /\ GeminiIdle
    /\ AppIdle
    /\ g_pc = "called"
    /\ cv_analysis \in Profiles
    /\ g_result = <<>>

GenerateSearchQueries ==
    /\ g_pc = "called"
    /\ g_result' = generate_search_queries(cv_analysis)
    /\ g_pc' = "done"
    /\ UNCHANGED cv_analysis
    /\ UNCHANGED <<searchVars, mockVars, geminiVars, appVars, concurrentVars, formatVars>>

QueryNext == GenerateSearchQueries

SpecQuery == QueryInit /\ [][QueryNext]_vars

----------------------------------------------------------------------------
(* Properties of generate_search_queries *)

\* C5: generate_search_queries returns at least 1 and at most 5 queries.
C5_BetweenOneAndFiveQueries ==
    g_pc = "done" => (Len(g_result) >= 1 /\ Len(g_result) <= 5)

\* the lists of the profile, a missing key read as the empty list
ProfileTitles     == GetList(cv_analysis.job_titles, <<>>)
ProfileSkills     == GetList(cv_analysis.skills, <<>>)
ProfileIndustries == GetList(cv_analysis.industries, <<>>)
NumTitleQueries    == Min(3, Len(ProfileTitles))
NumSkillQueries    == IF ProfileSkills = <<>> THEN 0 ELSE 1
NumIndustryQueries == Min(2, Len(ProfileIndustries))

\* C6: the result is, in this order, the quoted first 3 titles, then (only
\* when skills is non-empty) one query of the experience level followed by
\* the first 3 skills, then the first 2 industries each followed by " jobs";
\* cutting to 5 removes queries only from the end of that order.
C6_TitlesThenSkillsThenIndustries ==
    g_pc = "done" =>
        /\ Len(g_result) = Min(5, NumTitleQueries + NumSkillQueries + NumIndustryQueries)
        /\ \A i \in 1..Len(g_result) :
              IF i <= NumTitleQueries
              THEN g_result[i] = <<"\"">> \o ProfileTitles[i] \o <<"\"">>
              ELSE IF i = NumTitleQueries + NumSkillQueries
              THEN g_result[i] =
                      GetStr(cv_analysis.experience_level, <<"m", "i", "d">>)
                      \o <<" ">> \o Join(<<" ">>, Take(ProfileSkills, 3))
              ELSE g_result[i] =
                      ProfileIndustries[i - NumTitleQueries - NumSkillQueries]
                      \o <<" ", "j", "o", "b", "s">>

\* C6 witness: a profile with 3 or more titles, more than 3 skills and 2 or
\* more industries, whose six queries were cut to five.
C6_Witness ==
    /\ g_pc = "done"
    /\ Len(ProfileTitles) > 3
    /\ Len(ProfileSkills) > 3
    /\ Len(ProfileIndustries) >= 2
    /\ ProfileTitles[1] /= ProfileTitles[2]
    /\ Len(g_result) = 5

----------------------------------------------------------------------------
(* utils.mock_cv_analysis *)

(* cv_text is held as the list of its words, the units the patterns of       *)
(* mock_cv_analysis match (each pattern is delimited by \b or by the         *)
(* characters it admits); the string itself is the words joined by blanks.   *)

StrNotFound      == <<"N", "o", "t", " ", "f", "o", "u", "n", "d">>
StrExtracted     == <<"E", "x", "t", "r", "a", "c", "t", "e", "d", " ", "f", "r", "o", "m", " ", "C", "V">>
StrDefaultYears  == <<"2", "-", "5", " ", "y", "e", "a", "r", "s">>
StrProgramming   == <<"P", "r", "o", "g", "r", "a", "m", "m", "i", "n", "g">>
StrProblemSolving == <<"P", "r", "o", "b", "l", "e", "m", " ", "S", "o", "l", "v", "i", "n", "g">>
StrCommonTools   == <<"C", "o", "m", "m", "o", "n", " ", "i", "n", "d", "u", "s", "t", "r", "y", " ", "t", "o", "o", "l", "s">>
StrSQL           == <<"S", "Q", "L">>
StrPython        == <<"P", "y", "t", "h", "o", "n">>
StrDataAnalysis  == <<"D", "a", "t", "a", " ", "A", "n", "a", "l", "y", "s", "i", "s">>
StrName          == <<"n", "a", "m", "e">>
StrSenior        == <<"s", "e", "n", "i", "o", "r">>

\* the alternatives of skills_pattern
SkillKeywords ==
    {<<"P", "y", "t", "h", "o", "n">>,
     <<"J", "a", "v", "a">>,
     <<"J", "a", "v", "a", "S", "c", "r", "i", "p", "t">>,
     <<"T", "y", "p", "e", "S", "c", "r", "i", "p", "t">>,
     <<"R", "e", "a", "c", "t">>,
     <<"V", "u", "e">>,
     <<"A", "n", "g", "u", "l", "a", "r">>,
     <<"N", "o", "d", "e", ".", "j", "s">>,
     <<"E", "x", "p", "r", "e", "s", "s">>,
     <<"D", "j", "a", "n", "g", "o">>,
     <<"F", "l", "a", "s", "k">>,
     <<"S", "p", "r", "i", "n", "g">>,
     <<"C", "+", "+">>,
     <<"C", "#">>,
     <<"G", "o">>,
     <<"R", "u", "s", "t">>,
     <<"S", "Q", "L">>,
     <<"M", "o", "n", "g", "o", "D", "B">>,
     <<"P", "o", "s", "t", "g", "r", "e", "S", "Q", "L">>,
     <<"R", "e", "d", "i", "s">>,
     <<"D", "o", "c", "k", "e", "r">>,
     <<"K", "u", "b", "e", "r", "n", "e", "t", "e", "s">>,
     <<"A", "W", "S">>,
     <<"A", "z", "u", "r", "e">>,
     <<"G", "C", "P">>,
     <<"T", "e", "n", "s", "o", "r", "F", "l", "o", "w">>,
     <<"P", "y", "T", "o", "r", "c", "h">>,
     <<"M", "a", "c", "h", "i", "n", "e", " ", "L", "e", "a", "r", "n", "i", "n", "g">>,
     <<"D", "e", "e", "p", " ", "L", "e", "a", "r", "n", "i", "n", "g">>,
     <<"D", "a", "t", "a", " ", "S", "c", "i", "e", "n", "c", "e">>,
     <<"A", "I">>,
     <<"N", "L", "P">>,
     <<"C", "o", "m", "p", "u", "t", "e", "r", " ", "V", "i", "s", "i", "o", "n">>,
     <<"B", "l", "o", "c", "k", "c", "h", "a", "i", "n">>,
     <<"C", "y", "b", "e", "r", "s", "e", "c", "u", "r", "i", "t", "y">>,
     <<"D", "e", "v", "O", "p", "s">>,
     <<"C", "I", "/", "C", "D">>,
     <<"G", "i", "t">>,
     <<"J", "e", "n", "k", "i", "n", "s">>,
     <<"U", "X">>,
     <<"U", "I">>,
     <<"F", "i", "g", "m", "a">>,
     <<"A", "d", "o", "b", "e">>,
     <<"P", "r", "o", "j", "e", "c", "t", " ", "M", "a", "n", "a", "g", "e", "m", "e", "n", "t">>,
     <<"A", "g", "i", "l", "e">>,
     <<"S", "c", "r", "u", "m">>,
     <<"L", "e", "a", "d", "e", "r", "s", "h", "i", "p">>,
     <<"C", "o", "m", "m", "u", "n", "i", "c", "a", "t", "i", "o", "n">>,
     <<"P", "r", "o", "b", "l", "e", "m", " ", "S", "o", "l", "v", "i", "n", "g">>}

Digits == {"0", "1", "2", "3", "4", "5", "6", "7", "8", "9"}

\* the words a resume text is made of here
Words ==
    {<<"P", "y", "t", "h", "o", "n">>,
     <<"p", "y", "t", "h", "o", "n">>,
     <<"S", "Q", "L">>,
     <<"S", "e", "n", "i", "o", "r">>,
     <<"n", "a", "m", "e">>,
     <<"j", "a", "n", "e", "@", "e", "x", "a", "m", "p", "l", "e", ".", "c", "o", "m">>,
     <<"5", "5", "5", "-", "1", "2", "3", "-", "4", "5", "6", "7">>,
     <<"5", " ", "y", "e", "a", "r", "s">>,
     <<"h", "e", "l", "l", "o">>}

\* the resume texts: every list of at most MaxWords words, the empty text included
Texts == SeqsUpTo(Words, MaxWords)

\* the string the words stand for
CvString(text) == Join(StrSpace, text)

\* email_pattern on one word: local part, "@", domain, ".", two or more letters
IsEmail(w) ==
    \E i \in 2..Len(w) :
        /\ w[i] = "@"
        /\ \E j \in (i + 2)..(Len(w) - 2) :
              /\ w[j] = "."
              /\ \A k \in (j + 1)..Len(w) : LowerChar(w[k]) \in {LowerLetters[n] : n \in 1..26}

\* phone_pattern on one word: ten digits in groups of 3, 3 and 4
IsPhone(w) ==
    /\ \A i \in 1..Len(w) : w[i] \in Digits \cup {"-", ".", " ", "(", ")"}
    /\ Len(SelectSeq(w, LAMBDA c : c \in Digits)) = 10

\* skills_pattern on one word, re.IGNORECASE
IsSkill(w) == \E k \in SkillKeywords : Lower(w) = Lower(k)

\* experience_pattern on one word: digits, an optional "+", blanks, a unit
IsExperience(w) ==
    \E n \in 1..Len(w) :
        /\ \A i \in 1..n : w[i] \in Digits
        /\ LET rest  == Drop(w, n)
               rest1 == IF rest /= <<>> /\ rest[1] = "+" THEN Tail(rest) ELSE rest
               unit  == SelectSeq(rest1, LAMBDA c : c /= " ")
           IN  Lower(unit) \in {<<"y", "e", "a", "r">>, <<"y", "e", "a", "r", "s">>,
                                <<"y", "r">>, <<"y", "r", "s">>,
                                <<"e", "x", "p", "e", "r", "i", "e", "n", "c", "e">>}

(* re.findall(pattern, cv_text) is SelectSeq(text, IsPattern): the matching  *)
(* words, in text order.                                                     *)

\* set(list)
ToSet(list) == {list[i] : i \in 1..Len(list)}

\* list(set(x)): the elements of the set in an order Python does not fix
OrderingsOf(S) ==
    {f \in [1..Cardinality(S) -> S] : \A i, j \in 1..Cardinality(S) : i /= j => f[i] /= f[j]}

\* IndexError raised by list[i]
IndexError == <<"<IndexError>">>

\* list[i], i counted from 0
PyIndex(list, i) == IF i < Len(list) THEN list[i + 1] ELSE IndexError

\* emails[0] if emails else "Not found"
MockEmail(text) ==
    LET emails == SelectSeq(text, IsEmail)
    IN  IF Truthy(emails) THEN PyIndex(emails, 0) ELSE StrNotFound

\* phones[0] if phones else "Not found"
MockPhone(text) ==
    LET phones == SelectSeq(text, IsPhone)
    IN  IF Truthy(phones) THEN PyIndex(phones, 0) ELSE StrNotFound

\* experience_matches[0], without the `if experience_matches` guard
MockExperience_Unguarded(text) == PyIndex(SelectSeq(text, IsExperience), 0)

\* experience_matches[0] if experience_matches else "2-5 years"
MockExperience(text) ==
    LET experience_matches == SelectSeq(text, IsExperience)
    IN  IF Truthy(experience_matches) THEN PyIndex(experience_matches, 0) ELSE StrDefaultYears

\* an expression of mock_cv_analysis raised
MockRaises(text) ==
    IndexError \in {MockEmail(text), MockPhone(text), MockExperience(text)}

\* the orders list(set(re.findall(skills_pattern, ...))) may come out in
SkillOrders(text) == OrderingsOf(ToSet(SelectSeq(text, IsSkill)))

\* the dict mock_cv_analysis returns, skills being the order list(set(..)) gave
mock_cv_analysis(text, skills) ==
    [candidate_profile |->
        [name    |-> IF Contains(StrName, Lower(CvString(text)))
                     THEN StrExtracted ELSE StrNotFound,
         email   |-> MockEmail(text),
         phone   |-> MockPhone(text),
         summary |-> "Experienced professional with technical skills and industry knowledge."],
     skills_analysis |->
        [technical_skills   |-> IF Truthy(skills) THEN Take(skills, 10)
                                ELSE <<StrProgramming, StrProblemSolving>>,
         soft_skills        |-> <<"Communication", "Teamwork", "Leadership">>,
         certifications     |-> <<"Relevant certifications if mentioned">>,
         tools_technologies |-> IF Truthy(skills) THEN Take(skills, 5)
                                ELSE <<StrCommonTools>>],
     experience_analysis |->
        [total_years_experience |-> MockExperience(text),
         current_level          |-> IF Contains(StrSenior, Lower(CvString(text)))
                                    THEN "Mid-level" ELSE "Junior/Mid-level",
         career_progression     |-> "Demonstrated growth in technical roles",
         key_achievements       |-> <<"Project delivery", "Team leadership", "Technical expertise">>],
     job_recommendations |->
        <<[role             |-> "Software Engineer",
           match_score      |-> 85,
           reasoning        |-> "Strong technical skills match with software development roles",
           required_skills  |-> IF Truthy(skills) THEN Take(skills, 5)
                                ELSE <<StrProgramming, StrProblemSolving>>,
           salary_range     |-> "$70,000 - $120,000",
           growth_potential |-> "High"],
          [role             |-> "Data Analyst",
           match_score      |-> 78,
           reasoning        |-> "Analytical skills and technical background suitable for data roles",
           required_skills  |-> <<StrSQL, StrPython, StrDataAnalysis>>,
           salary_range     |-> "$60,000 - $95,000",
           growth_potential |-> "High"]>>,
     cv_improvement_suggestions |->
        <<[area       |-> "Achievements Section",
           issue      |-> "Lack of quantified achievements",
           suggestion |-> "Add specific metrics and results for each role (e.g., 'Increased efficiency by 30%')",
           priority   |-> "High"],
          [area       |-> "Skills Section",
           issue      |-> "Generic skill descriptions",
           suggestion |-> "Categorize skills and indicate proficiency levels",
           priority   |-> "Medium"]>>,
     market_insights |->
        [industry_trends  |-> "High demand for technical skills, remote work opportunities increasing",
         salary_benchmark |-> "$80,000 - $130,000 for similar profiles",
         demand_outlook   |-> "High"]]

\* every value mock_cv_analysis may return for a text
MockResults(text) == {mock_cv_analysis(text, skills) : skills \in SkillOrders(text)}

MockInit ==
    /\ ConcurrentIdle
    /\ FormatIdle
    /\ SearchIdle
    /\ QueryIdle
    /\ GeminiIdle
    /\ AppIdle
    /\ m_pc = "called"
    /\ cv_text \in Texts
    /\ m_raised = FALSE
    /\ m_result = <<>>

\* the body of mock_cv_analysis: it returns its dict, or an expression raises
MockAnalysis ==
    /\ m_pc = "called"
    /\ IF MockRaises(cv_text)
       THEN /\ m_raised' = TRUE
            /\ m_result' = <<>>
       ELSE /\ m_raised' = FALSE
            /\ m_result' \in MockResults(cv_text)
    /\ m_pc' = "done"
    /\ UNCHANGED cv_text
    /\ UNCHANGED <<searchVars, queryVars, geminiVars, appVars, concurrentVars, formatVars>>

MockNext == MockAnalysis

SpecMock == MockInit /\ [][MockNext]_vars

----------------------------------------------------------------------------
(* utils.analyze_cv_with_gemini *)

(* response.text is held as a list of tokens: the braces, a code fence, a   *)
(* run of prose, and the members of a JSON object ("key": value, ...), each *)
(* member token standing for well-formed JSON text.                         *)

SectionNames ==
    {"candidate_profile", "skills_analysis", "experience_analysis",
     "job_recommendations", "cv_improvement_suggestions", "market_insights"}

\* tokens that are members of a JSON object, and the keys each one carries
MemberTokens == {"all six sections", "candidate_profile only"}
MemberKeys(tok) ==
    IF tok = "all six sections" THEN SectionNames ELSE {"candidate_profile"}

ReplyTokens == {"{", "}", "fence", "prose"} \cup MemberTokens

\* the replies of the model
Replies == SeqsUpTo(ReplyTokens, MaxReply)

\* the values of os.getenv('GEMINI_API_KEY'): unset, empty, set
ApiKeys == {Absent, "", "gemini-key"}

\* the texts analyze_cv_with_gemini is called with
GeminiTexts ==
    {<<>>,
     <<<<"h", "e", "l", "l", "o">>>>,
     <<<<"P", "y", "t", "h", "o", "n">>, <<"S", "Q", "L">>>>}

\* str.find(tok): the index, counted from 0, of the first occurrence, or -1
Find(s, tok) ==
    IF \E i \in 1..Len(s) : s[i] = tok
    THEN (CHOOSE i \in 1..Len(s) : s[i] = tok /\ \A j \in 1..(i - 1) : s[j] /= tok) - 1
    ELSE -1

\* str.rfind(tok): the index, counted from 0, of the last occurrence, or -1
RFind(s, tok) ==
    IF \E i \in 1..Len(s) : s[i] = tok
    THEN (CHOOSE i \in 1..Len(s) : s[i] = tok /\ \A j \in (i + 1)..Len(s) : s[j] /= tok) - 1
    ELSE -1

\* s[a:b], indices counted from 0
Slice(s, a, b) == SubSeq(s, a + 1, Min(b, Len(s)))

\* json.loads accepts the text: one object, its members between the braces
JsonValid(text) ==
    /\ Len(text) >= 2
    /\ text[1] = "{"
    /\ text[Len(text)] = "}"
    /\ \A i \in 2..(Len(text) - 1) : text[i] \in MemberTokens

\* json.loads(text) of an accepted text: the dict of the keys it carries
JsonLoads(text) ==
    [k \in UNION {MemberKeys(text[i]) : i \in 2..(Len(text) - 1)} |-> "value from the model"]

JsonStart(c) == Find(c, "{")
JsonEnd(c)   == RFind(c, "}") + 1

\* if json_start != -1 and json_end > json_start
HasJsonSpan(c) == JsonStart(c) /= -1 /\ JsonEnd(c) > JsonStart(c)

GeminiInit ==
    /\ ConcurrentIdle
    /\ FormatIdle
    /\ SearchIdle
    /\ QueryIdle
    /\ AppIdle
    /\ m_pc = "idle"
    /\ cv_text \in GeminiTexts
    /\ m_raised = FALSE
    /\ m_result = <<>>
    /\ a_pc = "check_key"
    /\ api_key \in ApiKeys
    /\ content = <<>>
    /\ a_path = "none"
    /\ a_raised = FALSE
    /\ a_result = <<>>

\* api_key = os.getenv(..); if not api_key: return mock_cv_analysis(cv_text)
GeminiCheckKey ==
    /\ a_pc = "check_key"
    /\ IF api_key = Absent \/ api_key = ""
       THEN /\ a_path' = "no_key"
            /\ a_pc' = "fallback"
            /\ m_pc' = "called"
       ELSE /\ a_pc' = "call"
            /\ UNCHANGED <<a_path, m_pc>>
    /\ UNCHANGED <<api_key, content, a_raised, a_result, cv_text, m_raised, m_result>>
    /\ UNCHANGED <<searchVars, queryVars, appVars, concurrentVars, formatVars>>

\* response = model.generate_content(prompt); content = response.text
\* either raises (caught by `except Exception`) or yields the reply
GeminiCallModel ==
    /\ a_pc = "call"
    /\ \/ /\ a_path' = "call_error"
          /\ a_pc' = "fallback"
          /\ m_pc' = "called"
          /\ UNCHANGED content
       \/ \E reply \in Replies :
             /\ content' = reply
             /\ a_pc' = "parse"
             /\ UNCHANGED <<a_path, m_pc>>
    /\ UNCHANGED <<api_key, a_raised, a_result, cv_text, m_raised, m_result>>
    /\ UNCHANGED <<searchVars, queryVars, appVars, concurrentVars, formatVars>>

\* the span from the first '{' to the last '}' is decoded and returned; no
\* span, or a span json.loads rejects, leads to mock_cv_analysis(cv_text)
GeminiParse ==
    /\ a_pc = "parse"
    /\ IF HasJsonSpan(content)
       THEN LET json_content == Slice(content, JsonStart(content), JsonEnd(content))
            IN  IF JsonValid(json_content)
                THEN /\ a_result' = JsonLoads(json_content)
                     /\ a_path' = "decoded"
                     /\ a_pc' = "done"
                     /\ UNCHANGED m_pc
                ELSE /\ a_path' = "decode_error"
                     /\ a_pc' = "fallback"
                     /\ m_pc' = "called"
                     /\ UNCHANGED a_result
       ELSE /\ a_path' = "no_span"
            /\ a_pc' = "fallback"
            /\ m_pc' = "called"
            /\ UNCHANGED a_result
    /\ UNCHANGED <<api_key, content, a_raised, cv_text, m_raised, m_result>>
    /\ UNCHANGED <<searchVars, queryVars, appVars, concurrentVars, formatVars>>

\* return mock_cv_analysis(cv_text), once the call has ended
GeminiReturnFallback ==
    /\ a_pc = "fallback"
    /\ m_pc = "done"
    /\ a_raised' = m_raised
    /\ a_result' = m_result
    /\ a_pc' = "done"
    /\ UNCHANGED <<api_key, content, a_path>>
    /\ UNCHANGED <<searchVars, queryVars, mockVars, appVars, concurrentVars, formatVars>>

GeminiNext ==
    \/ GeminiCheckKey
    \/ GeminiCallModel
    \/ GeminiParse
    \/ MockAnalysis
    \/ GeminiReturnFallback

SpecGemini == GeminiInit /\ [][GeminiNext]_vars

----------------------------------------------------------------------------
(* Properties of mock_cv_analysis *)

\* a text value that is an extracted word or a placeholder, not a failure
Populated(v) == v /= <<>> /\ v /= IndexError

\* C7: for any text mock_cv_analysis does not raise and returns all six
\* sections with every field populated, and job_recommendations is the two
\* roles Software Engineer and Data Analyst, in that order.
C7_MockAlwaysFullyPopulated ==
    m_pc = "done" =>
        /\ ~m_raised
        /\ DOMAIN m_result = SectionNames
        /\ DOMAIN m_result.candidate_profile = {"name", "email", "phone", "summary"}
        /\ Populated(m_result.candidate_profile.name)
        /\ Populated(m_result.candidate_profile.email)
        /\ Populated(m_result.candidate_profile.phone)
        /\ DOMAIN m_result.skills_analysis =
              {"technical_skills", "soft_skills", "certifications", "tools_technologies"}
        /\ \A f \in DOMAIN m_result.skills_analysis : m_result.skills_analysis[f] /= <<>>
        /\ DOMAIN m_result.experience_analysis =
              {"total_years_experience", "current_level", "career_progression",
               "key_achievements"}
        /\ Populated(m_result.experience_analysis.total_years_experience)
        /\ m_result.experience_analysis.key_achievements /= <<>>
        /\ Len(m_result.job_recommendations) = 2
        /\ m_result.job_recommendations[1].role = "Software Engineer"
        /\ m_result.job_recommendations[2].role = "Data Analyst"
        /\ \A i \in 1..2 : m_result.job_recommendations[i].required_skills /= <<>>
        /\ m_result.cv_improvement_suggestions /= <<>>
        /\ DOMAIN m_result.market_insights =
              {"industry_trends", "salary_benchmark", "demand_outlook"}

\* C7 witness: mock_cv_analysis has returned for the empty text, every
\* extracted field being its placeholder.
C7_Witness ==
    /\ m_pc = "done"
    /\ cv_text = <<>>
    /\ ~m_raised
    /\ m_result.candidate_profile.email = StrNotFound
    /\ m_result.experience_analysis.total_years_experience = StrDefaultYears
    /\ m_result.skills_analysis.technical_skills = <<StrProgramming, StrProblemSolving>>

----------------------------------------------------------------------------
(* Properties of analyze_cv_with_gemini *)

\* C8: analyze_cv_with_gemini never raises; without a key, on a call error,
\* without a '{' ... '}' span or on a decoding failure it returns what
\* mock_cv_analysis returns for the same text; and whatever it returns has
\* all six sections of the profile.
C8_GeminiNeverRaisesAlwaysFullShape ==
    a_pc = "done" =>
        /\ ~a_raised
        /\ a_path \in {"no_key", "call_error", "no_span", "decode_error"} =>
              (a_result = m_result /\ a_result \in MockResults(cv_text))
        /\ \A k \in SectionNames : k \in DOMAIN a_result

----------------------------------------------------------------------------
(* app.py: strings *)

(* A literal of an f-string template is held as one element of the string   *)
(* (written in ASCII); interpolated text is held character by character.    *)

StrErreur     == <<"E", "r", "r", "e", "u", "r">>
StrError      == <<"E", "r", "r", "o", "r">>
StrPdfErreur  == <<"E", "r", "r", "e", "u", "r", " ", "l", "o", "r", "s", " ", "d", "e", " ",
                   "l", "a", " ", "l", "e", "c", "t", "u", "r", "e", " ", "d", "u", " ",
                   "P", "D", "F", ":", " ">>
StrProfessionnel == <<"P", "r", "o", "f", "e", "s", "s", "i", "o", "n", "n", "e", "l">>

MsgMissingKey    == <<"(x) Erreur: Cle API Groq manquante">>
MsgCross         == <<"(x) ">>
MsgAnalysisError == <<"Erreur d'analyse: ">>
MsgUnexpected    == <<"(x) Erreur inattendue: ">>
AnalysisHeader   == "**Analyse du CV**"
JobsHeader       == "**Offres d'emploi trouvees ("

\* str(n) of a natural number
RECURSIVE NumStr(_)
NumStr(n) ==
    LET digit == <<"0", "1", "2", "3", "4", "5", "6", "7", "8", "9">>
    IN  IF n < 10 THEN <<digit[n + 1]>> ELSE NumStr(n \div 10) \o <<digit[(n % 10) + 1]>>

----------------------------------------------------------------------------
(* app.CVAnalyzer.extract_text_from_pdf *)

\* the file objects the form hands over: a missing one, an uploaded one
PdfFiles == {NoObject, "cv.pdf"}

\* the texts of the PDF documents
AppTexts ==
    {<<>>,
     <<"D", "e", "v">>,
     <<"E", "r", "r", "e", "u", "r", " ", "4", "0", "4">>}

\* str(e) of the exception fitz.open raised, and of the one get_text raised
CauseOpen == <<"c", "a", "n", "n", "o", "t", " ", "o", "p", "e", "n", " ", "f", "i", "l", "e">>
CausePage == <<"b", "a", "d", " ", "p", "a", "g", "e">>
CauseNoName ==
    <<"'", "N", "o", "n", "e", "T", "y", "p", "e", "'", " ", "o", "b", "j", "e", "c", "t", " ",
      "h", "a", "s", " ", "n", "o", " ", "a", "t", "t", "r", "i", "b", "u", "t", "e", " ",
      "'", "n", "a", "m", "e", "'">>

\* return f"Erreur lors de la lecture du PDF: {str(e)}"
ExtractionErrorText(cause) == StrPdfErreur \o cause

\* if "Error" in cv_text: the test with the English word
TextSignalsError_English(text) == Contains(StrError, text)

\* if "Erreur" in cv_text
TextSignalsError(text) == Contains(StrErreur, text)

----------------------------------------------------------------------------
(* app.CVAnalyzer.analyze_cv *)

(* The content of the reply is a list of tokens: a code fence, the tag json, *)
(* a line break, and one token for the text between them.                    *)

GroqBodies ==
    {"object: titles and skills", "object: no keys", "object: error key", "array", "not json"}

\* a reply with three titles, skills and two industries
FullProfileBody == "object: full profile"

\* json.loads of the text a body token stands for
JsonDoc(body) ==
    CASE body = "object: titles and skills" ->
            [json_type |-> "object", error |-> AbsentStr,
             job_titles |-> <<<<"D", "e", "v">>>>,
             skills |-> <<<<"p", "y">>, <<"g", "o">>>>,
             industries |-> AbsentList,
             experience_level |-> <<"s", "e", "n", "i", "o", "r">>]
      [] body = "object: full profile" ->
            [json_type |-> "object", error |-> AbsentStr,
             job_titles |-> <<<<"D", "e", "v">>, <<"Q", "A">>, <<"O", "p", "s">>>>,
             skills |-> <<<<"p", "y">>, <<"g", "o">>>>,
             industries |-> <<<<"w", "e", "b">>, <<"b", "a", "n", "k">>>>,
             experience_level |-> <<"s", "e", "n", "i", "o", "r">>]
      [] body = "object: no keys" -> EmptyDict
      [] body = "object: error key" ->
            [EmptyDict EXCEPT !.error = <<"n", "o", " ", "C", "V">>]
      [] OTHER -> [EmptyDict EXCEPT !.json_type = "array"]

GroqPrefixes == {<<>>, <<"fence", "json", "nl">>, <<"fence", "nl">>}
GroqSuffixes == {<<>>, <<"nl", "fence">>}

\* result['choices'][0]['message']['content'] of the replies
GroqReplies ==
    {pre \o <<body>> \o suf : pre \in GroqPrefixes, body \in GroqBodies, suf \in GroqSuffixes}

RECURSIVE LStrip(_)
LStrip(c) == IF c /= <<>> /\ c[1] = "nl" THEN LStrip(Tail(c)) ELSE c

RECURSIVE RStrip(_)
RStrip(c) == IF c /= <<>> /\ c[Len(c)] = "nl" THEN RStrip(SubSeq(c, 1, Len(c) - 1)) ELSE c

\* content = re.sub(r'^```json\s*', '', content)
StripLeadingFence(c) ==
    IF Len(c) >= 2 /\ c[1] = "fence" /\ c[2] = "json" THEN LStrip(Drop(c, 2)) ELSE c

\* content = re.sub(r'\s*```$', '', content)
StripTrailingFence(c) ==
    IF c /= <<>> /\ c[Len(c)] = "fence" THEN RStrip(SubSeq(c, 1, Len(c) - 1)) ELSE c

CleanContent(c) == StripTrailingFence(StripLeadingFence(c))

\* json.loads accepts the text: one JSON document between optional blanks
GroqJsonValid(c) ==
    LET t == RStrip(LStrip(c))
    IN  Len(t) = 1 /\ t[1] \in (GroqBodies \cup {FullProfileBody}) \ {"not json"}

\* the dict of the `except Exception as e` branch
AnalysisErrorDict(cause) ==
    [json_type |-> "object",
     error |-> MsgAnalysisError \o cause,
     job_titles |-> <<StrProfessionnel>>,
     skills |-> <<>>,
     industries |-> <<>>,
     experience_level |-> StrMid]

\* str(e) of the AttributeError of analysis_result.get on a decoded JSON array
CauseNoGet == <<"'list' object has no attribute 'get'">>

CauseRequest == <<"H", "T", "T", "P">>
CauseJson    == <<"J", "S", "O", "N">>

\* {cv_text[:3000]}
PromptCap == 3000

\* analyze_cv: the request failed, or the reply is cleaned and decoded
analyze_cv(request_failed, reply) ==
    IF request_failed
    THEN AnalysisErrorDict(CauseRequest)
    ELSE IF GroqJsonValid(CleanContent(reply))
         THEN JsonDoc(RStrip(LStrip(CleanContent(reply)))[1])
         ELSE AnalysisErrorDict(CauseJson)

----------------------------------------------------------------------------
(* app.JobSearcher *)

AppLinks == {"https://jobs.example/1", "https://jobs.example/2"}

\* one element of results['organic'], or of ddgs.text(...); link may be absent
SearchRaw == [link : AppLinks \cup {Absent}]

\* search_jobs, the Serper branch
SerperJobs(results) ==
    [i \in 1..Len(results) |->
        [title |-> "serper result", link |-> Get(results[i].link, ""), date |-> ""]]

\* the posting search_jobs_duckduckgo returns when the search raised
SearchErrorEntry == [title |-> "Erreur de recherche", link |-> "#", date |-> "N/A"]

\* search_jobs_duckduckgo
search_jobs_duckduckgo(failed, results) ==
    IF failed
    THEN <<SearchErrorEntry>>
    ELSE [i \in 1..Len(results) |->
            [title |-> "duckduckgo result", link |-> Get(results[i].link, ""),
             date |-> "Recent"]]

\* search_jobs: the Serper results, or what search_jobs_duckduckgo returns
search_jobs(serper_failed, serper_results, ddg_failed, ddg_results) ==
    IF serper_failed
    THEN search_jobs_duckduckgo(ddg_failed, ddg_results)
    ELSE SerperJobs(serper_results)

----------------------------------------------------------------------------
(* app.CVJobMatcher.process_cv_and_search *)

\* {job['link']: job for job in all_jobs}.values(): one posting per link, at
\* the position of the link's first occurrence, the last posting seen kept
DedupByLink(js) ==
    LET firsts == SelectSeq([i \in 1..Len(js) |-> i],
                            LAMBDA i : \A j \in 1..(i - 1) : js[j].link /= js[i].link)
        last(k) == CHOOSE i \in 1..Len(js) :
                      js[i].link = k /\ \A j \in (i + 1)..Len(js) : js[j].link /= k
    IN  [n \in 1..Len(firsts) |-> js[last(js[firsts[n]].link)]]

RECURSIVE Bullets(_)
Bullets(list) ==
    IF list = <<>> THEN <<>> ELSE <<"* ">> \o list[1] \o <<"\n">> \o Bullets(Tail(list))

\* the f-string analysis_output
FormatAnalysis(d) ==
    <<AnalysisHeader, "**Niveau d'experience:** ">>
    \o GetStr(d.experience_level, StrNA)
    \o <<"**Competences identifiees:**">> \o Bullets(GetList(d.skills, <<>>))
    \o <<"**Titres de postes suggeres:**">> \o Bullets(GetList(d.job_titles, <<>>))
    \o <<"**Secteurs d'activite:**">> \o Bullets(GetList(d.industries, <<>>))

RECURSIVE JobEntries(_, _)
JobEntries(js, i) ==
    IF i > Len(js) THEN <<>>
    ELSE <<"**">> \o NumStr(i) \o <<". ", js[i].title, "**", js[i].date, js[i].link, "---">>
         \o JobEntries(js, i + 1)

\* the f-string jobs_output and the entries appended to it
FormatJobs(unique_jobs, c, queries) ==
    <<JobsHeader>> \o NumStr(Len(unique_jobs)) \o <<" resultats)**">>
    \o <<"**Pays de recherche:** ">> \o c
    \o <<"**Requetes utilisees:** ">> \o Join(<<",", " ">>, queries)
    \o <<"---">>
    \o JobEntries(Take(unique_jobs, 20), 1)

AppInit ==
    /\ ConcurrentIdle
    /\ FormatIdle
    /\ SearchIdle
    /\ QueryIdle
    /\ MockIdle
    /\ GeminiIdle
    /\ p_pc = "check_key"
    /\ pdf_file \in PdfFiles
    /\ p_country = StrFrance
    /\ groq_key \in {"", "gsk-key"}
    /\ serper_key \in {"", "serper-key"}
    /\ cv_analyzer = NoObject
    /\ job_searcher = NoObject
    /\ extraction = "pending"
    /\ open_documents = 0
    /\ p_cv_text = NoText
    /\ analyzer_log = <<>>
    /\ analysis_result = EmptyDict
    /\ analysis_output = NoText
    /\ search_queries = <<>>
    /\ query_index = 0
    /\ search_log = <<>>
    /\ all_jobs = <<>>
    /\ out1 = NoText
    /\ out2 = NoText

\* return first, second
Return(first, second) ==
    /\ out1' = first
    /\ out2' = second
    /\ p_pc' = "done"

\* no handler around the body: the exception leaves process_cv_and_search
OuterExcept_Reraise(cause) == [pc |-> "raised", first |-> NoText, second |-> NoText]

\* except Exception as e: return f"(x) Erreur inattendue: {str(e)}", ""
OuterExcept(cause) == [pc |-> "done", first |-> MsgUnexpected \o cause, second |-> NoText]

\* a statement of the try body raised an exception with the text cause
Raise(cause) ==
    /\ out1' = OuterExcept(cause).first
    /\ out2' = OuterExcept(cause).second
    /\ p_pc' = OuterExcept(cause).pc

\* if not groq_key: return "(x) Erreur: Cle API Groq manquante", ""
ProcCheckKey ==
    /\ p_pc = "check_key"
    /\ IF groq_key = ""
       THEN Return(MsgMissingKey, <<>>)
       ELSE p_pc' = "setup" /\ UNCHANGED <<out1, out2>>
    /\ UNCHANGED <<pdf_file, p_country, groq_key, serper_key, cv_analyzer, job_searcher,
                   extraction, open_documents, p_cv_text, analyzer_log, analysis_result,
                   analysis_output, search_queries, query_index, search_log, all_jobs>>
    /\ UNCHANGED <<searchVars, queryVars, mockVars, geminiVars, concurrentVars, formatVars>>

\* self.setup_apis(groq_key, serper_key)
ProcSetupApis ==
    /\ p_pc = "setup"
    /\ cv_analyzer' = groq_key
    /\ job_searcher' = serper_key
    /\ p_pc' = "extract"
    /\ UNCHANGED <<pdf_file, p_country, groq_key, serper_key,
                   extraction, open_documents, p_cv_text, analyzer_log, analysis_result,
                   analysis_output, search_queries, query_index, search_log, all_jobs,
                   out1, out2>>
    /\ UNCHANGED <<searchVars, queryVars, mockVars, geminiVars, concurrentVars, formatVars>>

\* cv_text = self.cv_analyzer.extract_text_from_pdf(pdf_file.name)
\*   pdf_file is None: pdf_file.name raises, caught by the outer except
\*   fitz.open raises: the error text is returned, nothing was opened
\*   get_text raises: the error text is returned, close() was not reached
\*   otherwise: the text of the pages is returned after close()
ProcExtract ==
    /\ p_pc = "extract"
    /\ \/ /\ pdf_file = NoObject
          /\ Raise(CauseNoName)
          /\ UNCHANGED <<extraction, open_documents, p_cv_text>>
       \/ /\ pdf_file /= NoObject
          /\ extraction' = "failed"
          /\ p_cv_text' = ExtractionErrorText(CauseOpen)
          /\ p_pc' = "check_text"
          /\ UNCHANGED <<open_documents, out1, out2>>
       \/ /\ pdf_file /= NoObject
          /\ extraction' = "failed"
          /\ p_cv_text' = ExtractionErrorText(CausePage)
          /\ open_documents' = open_documents + 1
          /\ p_pc' = "check_text"
          /\ UNCHANGED <<out1, out2>>
       \/ /\ pdf_file /= NoObject
          /\ \E text \in AppTexts :
                /\ extraction' = "ok"
                /\ p_cv_text' = text
          /\ p_pc' = "check_text"
          /\ UNCHANGED <<open_documents, out1, out2>>
    /\ UNCHANGED <<pdf_file, p_country, groq_key, serper_key, cv_analyzer, job_searcher,
                   analyzer_log, analysis_result,
                   analysis_output, search_queries, query_index, search_log, all_jobs>>
    /\ UNCHANGED <<searchVars, queryVars, mockVars, geminiVars, concurrentVars, formatVars>>

\* if "Erreur" in cv_text: return cv_text, ""
ProcCheckText ==
    /\ p_pc = "check_text"
    /\ IF TextSignalsError(p_cv_text)
       THEN Return(p_cv_text, <<>>)
       ELSE p_pc' = "analyze" /\ UNCHANGED <<out1, out2>>
    /\ UNCHANGED <<pdf_file, p_country, groq_key, serper_key, cv_analyzer, job_searcher,
                   extraction, open_documents, p_cv_text, analyzer_log, analysis_result,
                   analysis_output, search_queries, query_index, search_log, all_jobs>>
    /\ UNCHANGED <<searchVars, queryVars, mockVars, geminiVars, concurrentVars, formatVars>>

\* analysis_result = self.cv_analyzer.analyze_cv(cv_text), the reply of the
\* endpoint being one of replies
ProcAnalyzeWith(replies) ==
    /\ p_pc = "analyze"
    /\ \/ /\ analysis_result' = analyze_cv(TRUE, <<>>)
          /\ analyzer_log' = Append(analyzer_log,
                [key |-> cv_analyzer, text |-> Take(p_cv_text, PromptCap),
                 request |-> "failed", reply |-> <<>>])
       \/ \E reply \in replies :
             /\ analysis_result' = analyze_cv(FALSE, reply)
             /\ analyzer_log' = Append(analyzer_log,
                   [key |-> cv_analyzer, text |-> Take(p_cv_text, PromptCap),
                    request |-> "ok", reply |-> reply])
    /\ p_pc' = "check_analysis"
    /\ UNCHANGED <<pdf_file, p_country, groq_key, serper_key, cv_analyzer, job_searcher,
                   extraction, open_documents, p_cv_text,
                   analysis_output, search_queries, query_index, search_log, all_jobs,
                   out1, out2>>
    /\ UNCHANGED <<searchVars, queryVars, mockVars, geminiVars, concurrentVars, formatVars>>

ProcAnalyze == ProcAnalyzeWith(GroqReplies)

\* if "error" in analysis_result: return f"(x) {analysis_result['error']}", ""
\* then analysis_output and search_queries are built; a decoded JSON array has
\* no get(), which raises into the outer except
ProcCheckAnalysis ==
    /\ p_pc = "check_analysis"
    /\ IF analysis_result.json_type = "object" /\ analysis_result.error /= AbsentStr
       THEN /\ Return(MsgCross \o analysis_result.error, <<>>)
            /\ UNCHANGED <<analysis_output, search_queries, query_index>>
       ELSE IF analysis_result.json_type /= "object"
       THEN /\ Raise(CauseNoGet)
            /\ UNCHANGED <<analysis_output, search_queries, query_index>>
       ELSE /\ analysis_output' = FormatAnalysis(analysis_result)
            /\ search_queries' = generate_search_queries(analysis_result)
            /\ query_index' = 1
            /\ p_pc' = "search"
            /\ UNCHANGED <<out1, out2>>
    /\ UNCHANGED <<pdf_file, p_country, groq_key, serper_key, cv_analyzer, job_searcher,
                   extraction, open_documents, p_cv_text, analyzer_log, analysis_result,
                   search_log, all_jobs>>
    /\ UNCHANGED <<searchVars, queryVars, mockVars, geminiVars, concurrentVars, formatVars>>

\* one iteration of `for query in search_queries`:
\*   jobs = self.job_searcher.search_jobs(query, country, num_results=5)
\*   all_jobs.extend(jobs)
\* the results of the provider being one of batches
ProcSearchQueryWith(batches) ==
    /\ p_pc = "search"
    /\ query_index <= Len(search_queries)
    /\ \/ \E results \in batches :
             /\ search_log' = Append(search_log,
                   [query |-> search_queries[query_index], key |-> job_searcher,
                    serper |-> "ok", ddg |-> "not called",
                    returned |-> search_jobs(FALSE, results, FALSE, <<>>)])
       \/ \E results \in batches :
             /\ search_log' = Append(search_log,
                   [query |-> search_queries[query_index], key |-> job_searcher,
                    serper |-> "failed", ddg |-> "ok",
                    returned |-> search_jobs(TRUE, <<>>, FALSE, results)])
       \/ /\ search_log' = Append(search_log,
                   [query |-> search_queries[query_index], key |-> job_searcher,
                    serper |-> "failed", ddg |-> "failed",
                    returned |-> search_jobs(TRUE, <<>>, TRUE, <<>>)])
    /\ all_jobs' = all_jobs \o search_log'[Len(search_log')].returned
    /\ query_index' = query_index + 1
    /\ UNCHANGED <<p_pc, pdf_file, p_country, groq_key, serper_key, cv_analyzer, job_searcher,
                   extraction, open_documents, p_cv_text, analyzer_log, analysis_result,
                   analysis_output, search_queries, out1, out2>>
    /\ UNCHANGED <<searchVars, queryVars, mockVars, geminiVars, concurrentVars, formatVars>>

ProcSearchQuery == ProcSearchQueryWith(SeqsUpTo(SearchRaw, MaxResults))

\* after the loop: unique_jobs, jobs_output, return analysis_output, jobs_output
ProcReport ==
    /\ p_pc = "search"
    /\ query_index > Len(search_queries)
    /\ Return(analysis_output, FormatJobs(DedupByLink(all_jobs), p_country, search_queries))
    /\ UNCHANGED <<pdf_file, p_country, groq_key, serper_key, cv_analyzer, job_searcher,
                   extraction, open_documents, p_cv_text, analyzer_log, analysis_result,
                   analysis_output, search_queries, query_index, search_log, all_jobs>>
    /\ UNCHANGED <<searchVars, queryVars, mockVars, geminiVars, concurrentVars, formatVars>>

AppNext ==
    \/ ProcCheckKey
    \/ ProcSetupApis
    \/ ProcExtract
    \/ ProcCheckText
    \/ ProcAnalyze
    \/ ProcCheckAnalysis
    \/ ProcSearchQuery
    \/ ProcReport

SpecApp == AppInit /\ [][AppNext]_vars

----------------------------------------------------------------------------
(* Properties of process_cv_and_search and JobSearcher *)

\* C4: a failing job provider contributes an empty result and its failure is
\* never an entry of the result: a search_jobs call in which Serper and
\* DuckDuckGo both failed returns no posting, and no returned posting is the
\* report of a failure.
C4_ProviderFailureNeverSurfaced ==
    \A n \in 1..Len(search_log) :
        /\ (search_log[n].serper = "failed" /\ search_log[n].ddg = "failed")
              => search_log[n].returned = <<>>
        /\ \A i \in 1..Len(search_log[n].returned) :
              search_log[n].returned[i].title /= "Erreur de recherche"

\* C9: when text extraction fails the extraction error message is the first
\* output, the second output is empty, and no analyzer request and no job
\* search is issued in that run.
C9_ExtractionFailureHalts ==
    extraction = "failed" =>
        /\ p_pc \in {"check_text", "done"}
        /\ analyzer_log = <<>>
        /\ search_log = <<>>
        /\ p_pc = "done" =>
              /\ out1 = p_cv_text
              /\ Take(out1, Len(StrPdfErreur)) = StrPdfErreur
              /\ out2 = <<>>

\* C9 witness: a page could not be read and the run has returned the
\* extraction error message alone.
C9_Witness ==
    /\ p_pc = "done"
    /\ extraction = "failed"
    /\ out1 = ExtractionErrorText(CausePage)
    /\ out2 = <<>>

\* C10: every run in which the text was extracted successfully returns a
\* profile report and a jobs report.
C10_OnlyExtractionFailureShortCircuits ==
    (p_pc = "done" /\ extraction = "ok") =>
        /\ out1 /= <<>>
        /\ out1[1] = AnalysisHeader
        /\ out2 /= <<>>
        /\ out2[1] = JobsHeader
        /\ Len(search_log) = Len(search_queries)

\* the first output is one of the error messages of process_cv_and_search
IsErrorMessage(t) ==
    /\ t /= NoText
    /\ \/ t = MsgMissingKey
       \/ t[1] = MsgCross[1]
       \/ t[1] = MsgUnexpected[1]
       \/ Take(t, Len(StrPdfErreur)) = StrPdfErreur

\* a stage of the finished run failed: pdf_file.name raised, the extraction
\* failed, the analysis request or its decoding failed, or the decoded reply
\* has no get()
StageFailed ==
    \/ pdf_file = NoObject /\ groq_key /= ""
    \/ extraction = "failed"
    \/ /\ analyzer_log /= <<>>
       /\ \/ analysis_result.json_type /= "object"
          \/ analysis_result \in {AnalysisErrorDict(CauseRequest), AnalysisErrorDict(CauseJson)}

\* C11: process_cv_and_search never lets an exception reach its caller, and a
\* run in which a stage failed returns an error message as first output and
\* the empty string as second output.
C11_NeverPropagates ==
    /\ p_pc /= "raised"
    /\ (p_pc = "done" /\ StageFailed) => (IsErrorMessage(out1) /\ out2 = NoText)

\* C11 witness: called without a file object, pdf_file.name raised and the
\* run returned the generic message.
C11_Witness ==
    /\ p_pc = "done"
    /\ pdf_file = NoObject
    /\ groq_key /= ""
    /\ out1 = MsgUnexpected \o CauseNoName
    /\ out2 = NoText

----------------------------------------------------------------------------
(* create_app: one CVJobMatcher serves every click of the button; the       *)
(* invocations of process_cv_and_search on it may overlap (the handlers of  *)
(* a Gradio app run on worker threads). Each statement of an invocation is  *)
(* one step.                                                                *)

\* the keys typed in the two forms
ConcurrentGroqKeys == {"", "gsk-A", "gsk-B"}
ConcurrentSerperKeys == {"", "serper-A"}

\* the text of the uploaded PDF, and the replies of the Groq endpoint
ConcurrentText == <<"D", "e", "v">>
ConcurrentReplies == {<<"fence", "json", "nl", "object: titles and skills", "nl", "fence">>}

\* the results of a provider for one query
ConcurrentResults == {<<[link |-> "https://jobs.example/1"]>>}

ConcurrentInit ==
    /\ SearchIdle
    /\ QueryIdle
    /\ MockIdle
    /\ GeminiIdle
    /\ AppIdle
    /\ FormatIdle
    /\ c_pc = [i \in Invocations |-> "check_key"]
    /\ c_args \in [Invocations -> [groq_key : ConcurrentGroqKeys,
                                   serper_key : ConcurrentSerperKeys]]
    /\ c_local = [i \in Invocations |->
                    [cv_text |-> NoText, analysis_result |-> EmptyDict,
                     analysis_output |-> NoText, search_queries |-> <<>>,
                     query_index |-> 0, all_jobs |-> <<>>]]
    /\ c_requests = [i \in Invocations |-> <<>>]
    /\ c_out = [i \in Invocations |-> <<NoText, NoText>>]

\* return first, second in invocation i
InvReturn(i, first, second) ==
    /\ c_out' = [c_out EXCEPT ![i] = <<first, second>>]
    /\ c_pc' = [c_pc EXCEPT ![i] = "done"]

\* invocation i moves to the statement at pc without returning
InvGoto(i, pc) ==
    /\ c_pc' = [c_pc EXCEPT ![i] = pc]
    /\ UNCHANGED c_out

\* if not groq_key: return "(x) Erreur: Cle API Groq manquante", ""
InvCheckKey(i) ==
    /\ c_pc[i] = "check_key"
    /\ IF c_args[i].groq_key = ""
       THEN InvReturn(i, MsgMissingKey, NoText)
       ELSE InvGoto(i, "setup_analyzer")
    /\ UNCHANGED <<c_args, c_local, c_requests, cv_analyzer, job_searcher>>
    /\ UNCHANGED <<appCallVars, searchVars, queryVars, mockVars, geminiVars, formatVars>>

\* setup_apis: self.cv_analyzer = CVAnalyzer(groq_key)
InvSetupAnalyzer(i) ==
    /\ c_pc[i] = "setup_analyzer"
    /\ cv_analyzer' = c_args[i].groq_key
    /\ InvGoto(i, "setup_searcher")
    /\ UNCHANGED <<c_args, c_local, c_requests, job_searcher>>
    /\ UNCHANGED <<appCallVars, searchVars, queryVars, mockVars, geminiVars, formatVars>>

\* setup_apis: self.job_searcher = JobSearcher(serper_key)
InvSetupSearcher(i) ==
    /\ c_pc[i] = "setup_searcher"
    /\ job_searcher' = c_args[i].serper_key
    /\ InvGoto(i, "extract")
    /\ UNCHANGED <<c_args, c_local, c_requests, cv_analyzer>>
    /\ UNCHANGED <<appCallVars, searchVars, queryVars, mockVars, geminiVars, formatVars>>

\* cv_text = self.cv_analyzer.extract_text_from_pdf(pdf_file.name)
InvExtract(i) ==
    /\ c_pc[i] = "extract"
    /\ \E text \in {ConcurrentText, ExtractionErrorText(CauseOpen)} :
          c_local' = [c_local EXCEPT ![i].cv_text = text]
    /\ InvGoto(i, "check_text")
    /\ UNCHANGED <<c_args, c_requests, cv_analyzer, job_searcher>>
    /\ UNCHANGED <<appCallVars, searchVars, queryVars, mockVars, geminiVars, formatVars>>

\* if "Erreur" in cv_text: return cv_text, ""
InvCheckText(i) ==
    /\ c_pc[i] = "check_text"
    /\ IF TextSignalsError(c_local[i].cv_text)
       THEN InvReturn(i, c_local[i].cv_text, NoText)
       ELSE InvGoto(i, "analyze")
    /\ UNCHANGED <<c_args, c_local, c_requests, cv_analyzer, job_searcher>>
    /\ UNCHANGED <<appCallVars, searchVars, queryVars, mockVars, geminiVars, formatVars>>

\* analysis_result = self.cv_analyzer.analyze_cv(cv_text): the request carries
\* the api_key of the CVAnalyzer self.cv_analyzer names at this moment
InvAnalyze(i) ==
    /\ c_pc[i] = "analyze"
    /\ c_requests' = [c_requests EXCEPT
                         ![i] = Append(@, [kind |-> "analysis", key |-> cv_analyzer])]
    /\ \/ c_local' = [c_local EXCEPT ![i].analysis_result = analyze_cv(TRUE, <<>>)]
       \/ \E reply \in ConcurrentReplies :
             c_local' = [c_local EXCEPT ![i].analysis_result = analyze_cv(FALSE, reply)]
    /\ InvGoto(i, "check_analysis")
    /\ UNCHANGED <<c_args, cv_analyzer, job_searcher>>
    /\ UNCHANGED <<appCallVars, searchVars, queryVars, mockVars, geminiVars, formatVars>>

\* if "error" in analysis_result: return; else analysis_output, search_queries
InvCheckAnalysis(i) ==
    /\ c_pc[i] = "check_analysis"
    /\ LET result == c_local[i].analysis_result
       IN  IF result.json_type = "object" /\ result.error /= AbsentStr
           THEN /\ InvReturn(i, MsgCross \o result.error, NoText)
                /\ UNCHANGED c_local
           ELSE IF result.json_type /= "object"
           THEN /\ InvReturn(i, OuterExcept(CauseNoGet).first, OuterExcept(CauseNoGet).second)
                /\ UNCHANGED c_local
           ELSE /\ c_local' = [c_local EXCEPT
                                  ![i].analysis_output = FormatAnalysis(result),
                                  ![i].search_queries = generate_search_queries(result),
                                  ![i].query_index = 1]
                /\ InvGoto(i, "search")
    /\ UNCHANGED <<c_args, c_requests, cv_analyzer, job_searcher>>
    /\ UNCHANGED <<appCallVars, searchVars, queryVars, mockVars, geminiVars, formatVars>>

\* one iteration of the loop: self.job_searcher.search_jobs(query, ...): the
\* request carries the api_key of the JobSearcher self.job_searcher names at
\* this moment
InvSearchQuery(i) ==
    /\ c_pc[i] = "search"
    /\ c_local[i].query_index <= Len(c_local[i].search_queries)
    /\ c_requests' = [c_requests EXCEPT
                         ![i] = Append(@, [kind |-> "search", key |-> job_searcher])]
    /\ \/ \E results \in ConcurrentResults :
             c_local' = [c_local EXCEPT
                            ![i].all_jobs = @ \o search_jobs(FALSE, results, FALSE, <<>>),
                            ![i].query_index = @ + 1]
       \/ c_local' = [c_local EXCEPT
                         ![i].all_jobs = @ \o search_jobs(TRUE, <<>>, TRUE, <<>>),
                         ![i].query_index = @ + 1]
    /\ UNCHANGED <<c_pc, c_out, c_args, cv_analyzer, job_searcher>>
    /\ UNCHANGED <<appCallVars, searchVars, queryVars, mockVars, geminiVars, formatVars>>

\* after the loop: return analysis_output, jobs_output
InvReport(i) ==
    /\ c_pc[i] = "search"
    /\ c_local[i].query_index > Len(c_local[i].search_queries)
    /\ InvReturn(i, c_local[i].analysis_output,
                 FormatJobs(DedupByLink(c_local[i].all_jobs), StrFrance,
                            c_local[i].search_queries))
    /\ UNCHANGED <<c_args, c_local, c_requests, cv_analyzer, job_searcher>>
    /\ UNCHANGED <<appCallVars, searchVars, queryVars, mockVars, geminiVars, formatVars>>

ConcurrentNext ==
    \/ \E i \in Invocations : InvCheckKey(i)
    \/ \E i \in Invocations : InvSetupAnalyzer(i)
    \/ \E i \in Invocations : InvSetupSearcher(i)
    \/ \E i \in Invocations : InvExtract(i)
    \/ \E i \in Invocations : InvCheckText(i)
    \/ \E i \in Invocations : InvAnalyze(i)
    \/ \E i \in Invocations : InvCheckAnalysis(i)
    \/ \E i \in Invocations : InvSearchQuery(i)
    \/ \E i \in Invocations : InvReport(i)

SpecConcurrent == ConcurrentInit /\ [][ConcurrentNext]_vars

\* C12: every request of an invocation carries the credential passed to that
\* invocation: the analysis request its groq_key, every job search its
\* serper_key, whatever the other invocation does in between.
C12_RequestsUseOwnCredentials ==
    \A i \in Invocations :
        \A n \in 1..Len(c_requests[i]) :
            c_requests[i][n].key =
                IF c_requests[i][n].kind = "analysis"
                THEN c_args[i].groq_key
                ELSE c_args[i].serper_key

----------------------------------------------------------------------------
(* utils.format_comprehensive_results *)

(* The returned markdown is a list of tokens: the literals of the f-string   *)
(* templates and the interpolated values. The sections that do not depend on *)
(* the recommendations, the suggestions or the postings are one token each.  *)

\* longest list of job recommendations, of CV suggestions, of postings
MaxRecs == 6
MaxSuggestions == 6
MaxJobs == 3

\* job_recommendations[:5], cv_suggestions[:5], description[:300]
RecCap == 5
SuggestionCap == 5
DescriptionCap == 300

\* the i-th recommendation and the i-th suggestion of a profile; some lack keys
Recommendation(i) ==
    [role |-> IF i % 4 = 0 THEN Absent ELSE "role " \o ToString(i),
     match_score |-> IF i % 3 = 0 THEN Absent ELSE ToString(95 - i)]

Suggestion(i) ==
    [area |-> IF i % 4 = 0 THEN Absent ELSE "area " \o ToString(i),
     priority |-> CASE i % 4 = 1 -> "High"
                    [] i % 4 = 2 -> "Medium"
                    [] i % 4 = 3 -> "Low"
                    [] OTHER -> Absent]

Reverse(list) == [i \in 1..Len(list) |-> list[Len(list) + 1 - i]]

\* the lists of distinct recommendations and suggestions, in either order
RecommendationLists ==
    LET up(n) == [i \in 1..n |-> Recommendation(i)]
    IN  {up(n) : n \in 0..MaxRecs} \cup {Reverse(up(n)) : n \in 0..MaxRecs}

SuggestionLists ==
    LET up(n) == [i \in 1..n |-> Suggestion(i)]
    IN  {up(n) : n \in 0..MaxSuggestions} \cup {Reverse(up(n)) : n \in 0..MaxSuggestions}

\* the postings search_real_jobs may hand over
FormatPostings ==
    {[title |-> "Python Developer", url |-> "https://jobs.example/1",
      description |-> <<"a", "p", "i">>],
     [title |-> "QA Engineer", url |-> "#", description |-> <<>>],
     [title |-> Absent, url |-> Absent, description |-> AbsentStr]}

FormatCountries == {"", "France"}

\* recommendations_section
RECURSIVE RecommendationEntries(_, _)
RecommendationEntries(recs, i) ==
    IF i > Len(recs) THEN <<>>
    ELSE <<"### ", ToString(i), ". ", Get(recs[i].role, "N/A"),
           "**Match Score:** ", Get(recs[i].match_score, "0"), "%">>
         \o RecommendationEntries(recs, i + 1)

RecommendationsSection_CapFour(job_recommendations) ==
    <<"## Top Job Recommendations">> \o RecommendationEntries(Take(job_recommendations, 4), 1)

RecommendationsSection(job_recommendations) ==
    <<"## Top Job Recommendations">>
    \o RecommendationEntries(Take(job_recommendations, RecCap), 1)

\* priority_emoji
PriorityEmoji(suggestion) ==
    IF suggestion.priority = "High" THEN "(red)"
    ELSE IF suggestion.priority = "Medium" THEN "(yellow)" ELSE "(green)"

\* cv_section
RECURSIVE SuggestionEntries(_)
SuggestionEntries(list) ==
    IF list = <<>> THEN <<>>
    ELSE <<PriorityEmoji(list[1]), " **", Get(list[1].area, "N/A"), "**",
           "- **Priority:** ", Get(list[1].priority, "N/A")>>
         \o SuggestionEntries(Tail(list))

SuggestionsSection(cv_suggestions) ==
    <<"## CV Improvement Suggestions">>
    \o SuggestionEntries(Take(cv_suggestions, SuggestionCap))

\* market_section
MarketSection(js, c) ==
    <<"## Market Insights", "## Job Opportunities Found",
      "**Location Filter:** ", IF c /= "" THEN c ELSE "Global",
      " | **Jobs Found:** ", ToString(Len(js)), "\n">>

\* jobs_section
RECURSIVE JobListings(_, _)
JobListings(js, i) ==
    IF i > Len(js) THEN <<>>
    ELSE <<"### (clipboard) ", ToString(i), ". [", Get(js[i].title, "N/A"), "](",
           Get(js[i].url, "#"), ")", "**Description:** ">>
         \o Take(GetStr(js[i].description, StrNA), DescriptionCap) \o <<"...">>
         \o <<"[Apply Now](", Get(js[i].url, "#"), ")", "---">>
         \o JobListings(js, i + 1)

format_comprehensive_results(analysis, js, c) ==
    <<"## Candidate Profile">>
    \o RecommendationsSection(analysis.job_recommendations)
    \o SuggestionsSection(analysis.cv_improvement_suggestions)
    \o MarketSection(js, c)
    \o JobListings(js, 1)
    \o <<"## Personalized Career Advice", "## Need Help?">>

FormatInit ==
    /\ SearchIdle
    /\ QueryIdle
    /\ MockIdle
    /\ GeminiIdle
    /\ AppIdle
    /\ ConcurrentIdle
    /\ f_pc = "called"
    /\ f_analysis \in [job_recommendations : RecommendationLists,
                       cv_improvement_suggestions : SuggestionLists]
    /\ f_jobs \in SeqsUpTo(FormatPostings, MaxJobs)
    /\ f_country \in FormatCountries
    /\ f_result = <<>>

FormatComprehensiveResults ==
    /\ f_pc = "called"
    /\ f_result' = format_comprehensive_results(f_analysis, f_jobs, f_country)
    /\ f_pc' = "done"
    /\ UNCHANGED <<f_analysis, f_jobs, f_country>>
    /\ UNCHANGED <<searchVars, queryVars, mockVars, geminiVars, appVars, concurrentVars>>

FormatNext == FormatComprehensiveResults

SpecFormat == FormatInit /\ [][FormatNext]_vars

\* the tokens of text that follow a token marker
After(text, marker) ==
    LET at == SelectSeq([i \in 1..Len(text) |-> i],
                        LAMBDA i : i > 1 /\ text[i - 1] = marker)
    IN  [n \in 1..Len(at) |-> text[at[n]]]

\* the value of each key in a list of dicts, default when the key is missing
Column(list, key, default) == [i \in 1..Len(list) |-> Get(list[i][key], default)]

\* C13: the report shows the first 5 recommendations and the first 5
\* suggestions of the profile in their order, every posting of the jobs list in
\* its order, and a 'Jobs Found' count equal to the number of postings shown.
C13_ReportKeepsOrderAndCaps ==
    f_pc = "done" =>
        /\ After(f_result, ". ") =
              Column(Take(f_analysis.job_recommendations, 5), "role", "N/A")
        /\ After(f_result, " **") =
              Column(Take(f_analysis.cv_improvement_suggestions, 5), "area", "N/A")
        /\ After(f_result, ". [") = Column(f_jobs, "title", "N/A")
        /\ After(f_result, "[Apply Now](") = Column(f_jobs, "url", "#")
        /\ After(f_result, " | **Jobs Found:** ") = <<ToString(Len(After(f_result, ". [")))>>

\* C13 witness: a profile with 6 recommendations and 6 suggestions and a list
\* of 3 postings has been rendered.
C13_Witness ==
    /\ f_pc = "done"
    /\ Len(f_analysis.job_recommendations) = 6
    /\ Len(f_analysis.cv_improvement_suggestions) = 6
    /\ Len(f_jobs) = 3
    /\ Len(After(f_result, ". ")) = 5
    /\ Len(After(f_result, ". [")) = 3

----------------------------------------------------------------------------
(* Properties of the jobs report of process_cv_and_search *)

\* the links of the postings listed in a jobs report, in the order listed: in
\* each entry the link is the fourth token after the ". " that ends the rank
ListedLinks(report) ==
    LET at == SelectSeq([i \in 1..Len(report) |-> i], LAMBDA i : report[i] = ". ")
    IN  [n \in 1..Len(at) |-> report[at[n] + 4]]

\* the number of elements of list equal to v
CountOf(list, v) == Cardinality({i \in 1..Len(list) : list[i] = v})

\* the links of the postings collected over the queries
CollectedLinks == [i \in 1..Len(all_jobs) |-> all_jobs[i].link]

\* C14: postings whose result had no link are never merged: each posting
\* collected without a link (its link is the default '') is listed in the
\* jobs report.
C14_PostingsWithoutUrlNeverMerged ==
    (p_pc = "done" /\ out2 /= NoText) =>
        CountOf(ListedLinks(out2), "") = CountOf(CollectedLinks, "")

----------------------------------------------------------------------------
(* Properties of the parsing of the model's reply *)

\* the JSON bodies that are objects
GroqObjects == {"object: titles and skills", "object: no keys", "object: error key"}

\* the reply is one JSON object between a leading code fence, with or without
\* the tag json, and a trailing code fence
FencedObject(reply) ==
    \E pre \in {<<"fence", "json", "nl">>, <<"fence", "nl">>}, body \in GroqObjects :
        reply = pre \o <<body>> \o <<"nl", "fence">>

\* the JSON object inside such a reply
FencedBody(reply) == CHOOSE body \in GroqObjects : reply[Len(reply) - 2] = body

\* C15: a reply that is a valid JSON object wrapped in code-fence markup, with
\* or without the tag json, is decoded by CVAnalyzer.analyze_cv, which returns
\* the object and not the error result.
C15_FencedReplyIsDecoded ==
    \A n \in 1..Len(analyzer_log) :
        (analyzer_log[n].request = "ok" /\ FencedObject(analyzer_log[n].reply)) =>
            analysis_result = JsonDoc(FencedBody(analyzer_log[n].reply))

----------------------------------------------------------------------------
(* Properties of CVAnalyzer.extract_text_from_pdf *)

\* C16: once extract_text_from_pdf has returned, on success or on failure, no
\* PDF document opened by the call is still open.
C16_PdfReleasedOnEveryPath ==
    extraction /= "pending" => open_documents = 0

----------------------------------------------------------------------------
(* Properties of the skills of mock_cv_analysis *)

\* the elements of list in the order of their first occurrence, each once
FirstOccurrences(list) ==
    LET at == SelectSeq([i \in 1..Len(list) |-> i],
                        LAMBDA i : \A j \in 1..(i - 1) : list[j] /= list[i])
    IN  [n \in 1..Len(at) |-> list[at[n]]]

\* C17: the technical skills the fallback analyzer returns are the matches of
\* the skills pattern, each once, in the order of their first match in the
\* text, cut to the first 10.
C17_SkillsInMatchOrder ==
    (m_pc = "done" /\ ~m_raised /\ SelectSeq(cv_text, IsSkill) /= <<>>) =>
        m_result.skills_analysis.technical_skills =
            Take(FirstOccurrences(SelectSeq(cv_text, IsSkill)), 10)

----------------------------------------------------------------------------
(* process_cv_and_search on a profile that yields five queries, each query   *)
(* answered with up to num_results results.                                  *)

\* search_jobs(query, country, num_results=5)
NumResults == 5

\* the reply of the Groq endpoint: a profile with titles, skills and industries
ReportReplies == {<<FullProfileBody>>}

\* the results of a provider for the q-th query: none, num_results results
\* found for this query only, or num_results results every query finds
ReportBatches(q) ==
    {<<>>,
     [j \in 1..NumResults |->
        [link |-> "https://jobs.example/q" \o ToString(q) \o "/" \o ToString(j)]],
     [j \in 1..NumResults |-> [link |-> "https://jobs.example/top/" \o ToString(j)]]}

ReportAnalyze == ProcAnalyzeWith(ReportReplies)

ReportSearchQuery == ProcSearchQueryWith(ReportBatches(query_index))

ReportNext ==
    \/ ProcCheckKey
    \/ ProcSetupApis
    \/ ProcExtract
    \/ ProcCheckText
    \/ ReportAnalyze
    \/ ProcCheckAnalysis
    \/ ReportSearchQuery
    \/ ProcReport

SpecReport == AppInit /\ [][ReportNext]_vars

\* the count stated in the header of a jobs report, as its digits
HeaderCount(report) ==
    LET end == CHOOSE i \in 1..Len(report) : report[i] = " resultats)**"
    IN  SubSeq(report, 2, end - 1)

\* C18: in the jobs report the count stated in the header is the number of
\* postings listed below it, and the postings are listed in the order of the
\* first occurrence of their link over the queries.
C18_HeaderCountIsListedCount ==
    (p_pc = "done" /\ out2 /= NoText) =>
        /\ HeaderCount(out2) = NumStr(Len(ListedLinks(out2)))
        /\ ListedLinks(out2) = FirstOccurrences(CollectedLinks)

====
